---- MODULE Spec2Model ----
(***************************************************************************)
(* Model of the latent-vector message pipeline of the Paradox network      *)
(* application: the optimized message service (lazy model initialization,  *)
(* LRU decode cache, throttled listener, batched decoding, sendMessage),   *)
(* the encoder/decoder model handles and the PerformanceMonitor.           *)
(*                                                                         *)
(* The program runs on a single-threaded event loop: every action below is *)
(* one synchronous segment of an async function, from one suspension point *)
(* (await) to the next.                                                    *)
(***************************************************************************)
EXTENDS Integers, Sequences, FiniteSets, TLC

\* ------------------------------------------------------------------ bounds
\* Capacity of MessageCache.  The code sets maxSize = 50; the model scales it
\* down so that evictions happen with a handful of message ids.
maxSize == 3
\* Largest number of records the store holds before any sendMessage.
MaxMsgs == 6
\* Snapshot events the store pushes to one listener.
MaxSnaps == 2
\* Clock ticks that pass after the start time.
MaxTicks == 3
\* The throttleMs argument of listenToMessages, in clock ticks.
throttleMs == 2
\* Records of the initial store whose latentVectors array is empty.
MaxBad == 1
\* Largest store that holds such a record.
MaxBadMsgs == 3
\* Largest number of vectors of a video record given to decodeData.
MaxFrames == 2
\* The assignments to one model handle that are counted.
MaxLoads == 3
\* Longest byte array given to chunkBytes.
MaxBytes == 3
\* Records of a conversation that changes while a listener is subscribed.
MaxStreamMsgs == 2
\* Calls of createConversation.
MaxCreates == 2
\* Users that create conversations, numbered in the sort order of their ids.
NumUsers == 3

\* ------------------------------------------------------------ state
VARIABLES
  modelsInitialized,   \* message-service: let modelsInitialized
  modelsInitializing,  \* message-service: let modelsInitializing
  lowPowerMode,        \* message-service: let lowPowerMode
  cache,               \* MessageCache.cache, a Map in insertion order
  textEncoderModel,    \* latent-encoder: handle is set (TRUE) or null (FALSE)
  imageEncoderModel,
  textDecoderModel,    \* latent-decoder handles
  imageDecoderModel,
  inits,               \* the initModels()/initDecoder() pairs started by ensureModelsLoaded
  call,                \* the sendMessage / fetchConversationMessages / snapshot-handler invocation
  inflight,            \* decodeMessage calls awaiting decodeData
  store,               \* the messages collection of the external store, ascending timestamp
  subscribed,          \* state of the onSnapshot subscription
  isProcessing,        \* listenToMessages: let isProcessing
  lastCall,            \* throttle: let lastCall
  now,                 \* the latest value read from Date.now()
  snapSeq,             \* number of snapshot events pushed so far
  handed,              \* history: every invocation of throttledCallback
  delivered,           \* history: every invocation of the caller's callback
  deliveredAtUnsub,    \* history: Len(delivered) when unsubscribe() was called
  encPeak,             \* history: most unit encodes outstanding at once in sendMessage
  recency,             \* history (cache): keys by time of last access, oldest first
  evictions,           \* history (cache): keys evicted, with the key that was oldest
  setKeys,             \* history (cache): the keys passed to set, and the number of set calls,
                       \* since the cache was last empty
  lastGet,             \* history (cache): key of the latest call if it was a get that hit, else 0
  batteryLevel,        \* PerformanceMonitor.batteryLevel, in percent
  isCharging,          \* PerformanceMonitor.isCharging
  appState,            \* PerformanceMonitor.appState
  batterySubscription, \* PerformanceMonitor.batterySubscription is set and not removed
  batteryStateListener,\* the listener of Battery.addBatteryStateListener is registered
  appStateSubscription,\* PerformanceMonitor.appStateSubscription is set and not removed
  monPc,               \* position inside PerformanceMonitor.start()
  monLast,             \* history: kind of the last PerformanceMonitor step
  job,                 \* the decodeData invocation
  unit,                \* the encodeTextWithCLIP / encodeImageWithCLIP / decodeTextWithCLIP /
                       \* decodeImageWithCLIP calls of the encodeData and decodeData invocation
  loads,               \* history: per model handle, the times a loaded model was assigned to it
  fresh,               \* history: ids given to decodeData whose cache entry was not evicted since
  redecoded,           \* history: ids given to decodeData while they were in fresh
  probe,               \* the latest call of a pure helper of the codec: its arguments and result
  convs,               \* the conversations collection of the external store
  cc                   \* the createConversation invocations

msVars    == <<modelsInitialized, modelsInitializing, lowPowerMode, cache>>
modelVars == <<textEncoderModel, imageEncoderModel, textDecoderModel, imageDecoderModel>>
pipeVars  == <<inits, call, inflight, store, subscribed, isProcessing, lastCall, now,
               snapSeq, handed, delivered, deliveredAtUnsub, encPeak>>
cacheHist == <<recency, evictions, setKeys, lastGet>>
perfVars  == <<batteryLevel, isCharging, appState, batterySubscription,
               batteryStateListener, appStateSubscription, monPc, monLast>>
codecVars == <<job, unit>>
decHist   == <<fresh, redecoded>>
auxVars   == <<probe, convs, cc>>
vars == <<msVars, modelVars, pipeVars, cacheHist, perfVars, codecVars, loads, decHist,
          auxVars>>

\* ------------------------------------------------------------ helpers
Min(a, b) == IF a < b THEN a ELSE b

Max(a, b) == IF a > b THEN a ELSE b

\* mutant of Reverse: the list is left in the order it has
ReverseKeep(s) == s

\* Array.prototype.reverse
Reverse(s) == [k \in 1..Len(s) |-> s[Len(s) + 1 - k]]

Range(s) == {s[k] : k \in 1..Len(s)}

\* Array.prototype.slice(0, n)
Take(s, n) == SubSeq(s, 1, Min(n, Len(s)))

\* ------------------------------------------------------------ MessageCache
CacheKeys(c) == {c[k].id : k \in 1..Len(c)}

CacheHas(c, id) == id \in CacheKeys(c)

CacheIndex(c, id) == CHOOSE k \in 1..Len(c) : c[k].id = id

CacheVal(c, id) == c[CacheIndex(c, id)].msg

\* Map.delete(id)
MapDelete(c, id) == SelectSeq(c, LAMBDA e : e.id # id)

\* Map.set(id, msg): an existing key keeps its position, a new key goes last
MapSet(c, id, msg) ==
  IF CacheHas(c, id)
  THEN [k \in 1..Len(c) |-> IF c[k].id = id THEN [id |-> id, msg |-> msg] ELSE c[k]]
  ELSE Append(c, [id |-> id, msg |-> msg])

\* mutant of CacheGet: the entry is returned without being moved to the end
CacheGetNoPromote(c, id) == c

\* MessageCache.get: the cache after the call (a hit is moved to the end)
CacheGet(c, id) ==
  IF CacheHas(c, id) THEN MapSet(MapDelete(c, id), id, CacheVal(c, id)) ELSE c

\* MessageCache.set with this.maxSize = cap: the cache after the call
CacheSetAt(cap, c, id, msg) ==
  LET c1 == IF Len(c) >= cap THEN MapDelete(c, c[1].id) ELSE c
  IN  MapSet(c1, id, msg)

\* MessageCache.set: the cache after the call
CacheSet(c, id, msg) == CacheSetAt(maxSize, c, id, msg)

\* MessageCache.clear
CacheClear(c) == <<>>

\* ------------------------------------------------------------ calls
Calls == {"send", "fetch", "snap"}

\* The state of one invocation of sendMessage, fetchConversationMessages or
\* the onSnapshot handler of listenToMessages.
IdleCall ==
  [pc |-> "idle",      \* suspension point the invocation is at
   inst |-> 0,         \* number of the invocation
   waited |-> FALSE,   \* ensureModelsLoaded found an initialization in flight
   raw |-> <<>>,       \* rawMessages
   i |-> 0,            \* loop variable i of the decode loop
   limit |-> 0,        \* PARALLEL_LIMIT
   sampled |-> FALSE,  \* lowPowerMode when PARALLEL_LIMIT was computed
   got |-> {},         \* results of the current Promise.all so far
   out |-> <<>>,       \* decodedMessages
   res |-> "none",     \* how the invocation ended: "returned" or "threw"
   value |-> <<>>,     \* the list it returned
   limitCount |-> 0,   \* the limitCount argument (fetchConversationMessages)
   storeErr |-> FALSE, \* the store operation of this invocation failed
   errSeen |-> FALSE,  \* the caller has received the store's error
   attempts |-> 0,     \* store operations issued by this invocation
   step |-> 0,         \* position in SendOrder (sendMessage)
   type |-> "none",    \* messageType (sendMessage)
   size |-> 0,         \* byte length of data (sendMessage)
   fps |-> 0,          \* metadata.keyframesPerSecond (sendMessage)
   units |-> {},       \* unit encodes outstanding (sendMessage)
   nvec |-> 0,         \* latentVectors.length of the assembled EncodedData
   vlens |-> <<>>,     \* the length of every vector of latentVectors
   chunk |-> 0,        \* the chunk size a file payload was split with
   lowAtSplit |-> FALSE, \* lowPowerMode when the file payload was split
   assembled |-> FALSE,\* encodeData has returned the complete EncodedData
   failed |-> "none",  \* what made the invocation throw: "convert", "model" or "store"
   encodedSize |-> 0,  \* EncodedData.encodedSize
   ratio |-> [nan |-> FALSE, num |-> 0, den |-> 1],  \* EncodedData.compressionRatio
   wrote |-> 0]        \* records this invocation has written to the store

\* The state of one invocation of decodeData.
IdleJob ==
  [pc |-> "idle",      \* "idle", "units" (awaiting its unit decodes) or "done"
   type |-> "none",    \* encoded.type
   vlens |-> <<>>,     \* the length of every vector of encoded.latentVectors
   size |-> 0,         \* encoded.originalSize
   threw |-> FALSE,    \* the invocation ended with an exception
   path |-> "none",    \* history: the path that produced the returned content
   res |-> [type |-> "none", data |-> "none", originalSize |-> 0, quality |-> 0]]
                       \* the DecodedData returned

PostEnsurePcs ==
  {"ensured", "getDocs", "batch", "staged", "keyframes", "spectrogram", "encode", "write",
   "done"}

\* ------------------------------------------------------------ lazy model initialization
\* mutant of EnsureBranch: the modelsInitializing test is missing
EnsureBranchNoWait(initialized, initializing) ==
  IF initialized THEN "return" ELSE "init"

\* ensureModelsLoaded, the two tests at its head
EnsureBranch(initialized, initializing) ==
  IF initialized THEN "return"
  ELSE IF initializing THEN "wait"
  ELSE "init"

\* initModels / initDecoder: the first model whose handle is null is loaded next
InitStart(textLoaded, imageLoaded) ==
  IF ~textLoaded THEN "text" ELSE IF ~imageLoaded THEN "image" ELSE "done"

\* The synchronous head of ensureModelsLoaded, run by invocation c whose
\* record is nxt[c].
EnsureEnter(c, nxt) ==
  LET b == EnsureBranch(modelsInitialized, modelsInitializing) IN
  /\ b \in {"return", "wait", "init"}
  /\ call' = [nxt EXCEPT ![c].pc = CASE b = "return" -> "ensured"
                                     [] b = "wait" -> "sleep"
                                     [] OTHER -> "initWait",
                         ![c].waited = nxt[c].waited \/ b = "wait"]
  /\ modelsInitializing' = (modelsInitializing \/ b = "init")
  /\ inits' = IF b = "init"
              THEN Append(inits, [owner |-> c,
                                  enc |-> InitStart(textEncoderModel, imageEncoderModel),
                                  dec |-> InitStart(textDecoderModel, imageDecoderModel),
                                  joined |-> FALSE])
              ELSE inits
  /\ UNCHANGED modelsInitialized

\* The setTimeout of ensureModelsLoaded fires: the function calls itself.
EnsureWake(c) ==
  /\ call[c].pc = "sleep"
  /\ EnsureEnter(c, call)
  /\ UNCHANGED <<lowPowerMode, cache, modelVars, inflight, store, subscribed, isProcessing,
                 lastCall, now, snapSeq, handed, delivered, deliveredAtUnsub, encPeak,
                 cacheHist, perfVars, auxVars, codecVars, loads, decHist>>

\* One await of initModels resolves (ok) or rejects (the catch ends the call).
InitModelsStep(r, ok) ==
  /\ r \in 1..Len(inits)
  /\ inits[r].enc \in {"text", "image"}
  /\ textEncoderModel' = (textEncoderModel \/ (ok /\ inits[r].enc = "text"))
  /\ imageEncoderModel' = (imageEncoderModel \/ (ok /\ inits[r].enc = "image"))
  /\ inits' = [inits EXCEPT ![r].enc =
                 IF ok /\ inits[r].enc = "text" /\ ~imageEncoderModel THEN "image" ELSE "done"]
  /\ loads' = IF ~ok THEN loads
              ELSE IF inits[r].enc = "text"
                   THEN [loads EXCEPT !.textEncoder = Min(loads.textEncoder + 1, MaxLoads)]
                   ELSE [loads EXCEPT !.imageEncoder = Min(loads.imageEncoder + 1, MaxLoads)]
  /\ UNCHANGED <<msVars, textDecoderModel, imageDecoderModel, call, inflight, store,
                 subscribed, isProcessing, lastCall, now, snapSeq, handed, delivered,
                 deliveredAtUnsub, encPeak, cacheHist, perfVars, auxVars, codecVars, decHist>>

\* One await of initDecoder resolves (ok) or rejects.
InitDecoderStep(r, ok) ==
  /\ r \in 1..Len(inits)
  /\ inits[r].dec \in {"text", "image"}
  /\ textDecoderModel' = (textDecoderModel \/ (ok /\ inits[r].dec = "text"))
  /\ imageDecoderModel' = (imageDecoderModel \/ (ok /\ inits[r].dec = "image"))
  /\ inits' = [inits EXCEPT ![r].dec =
                 IF ok /\ inits[r].dec = "text" /\ ~imageDecoderModel THEN "image" ELSE "done"]
  /\ loads' = IF ~ok THEN loads
              ELSE IF inits[r].dec = "text"
                   THEN [loads EXCEPT !.textDecoder = Min(loads.textDecoder + 1, MaxLoads)]
                   ELSE [loads EXCEPT !.imageDecoder = Min(loads.imageDecoder + 1, MaxLoads)]
  /\ UNCHANGED <<msVars, textEncoderModel, imageEncoderModel, call, inflight, store,
                 subscribed, isProcessing, lastCall, now, snapSeq, handed, delivered,
                 deliveredAtUnsub, encPeak, cacheHist, perfVars, auxVars, codecVars, decHist>>

\* mutant of InitializingAfterFinally: the flag is left as it is
InitializingKept(initializing) == initializing

\* finally { modelsInitializing = false }
InitializingAfterFinally(initializing) == FALSE

\* Promise.all([initModels(), initDecoder()]) resolves in the invocation that
\* started it: both flags are written and ensureModelsLoaded returns.
EnsureFinish(c) ==
  /\ call[c].pc = "initWait"
  /\ \E r \in 1..Len(inits) :
       /\ inits[r].owner = c /\ ~inits[r].joined
       /\ inits[r].enc = "done" /\ inits[r].dec = "done"
       /\ inits' = [inits EXCEPT ![r].joined = TRUE]
  /\ modelsInitialized' = TRUE
  /\ modelsInitializing' = InitializingAfterFinally(modelsInitializing)
  /\ call' = [call EXCEPT ![c].pc = "ensured"]
  /\ UNCHANGED <<lowPowerMode, cache, modelVars, inflight, store, subscribed, isProcessing,
                 lastCall, now, snapSeq, handed, delivered, deliveredAtUnsub, encPeak,
                 cacheHist, perfVars, auxVars, codecVars, loads, decHist>>

\* A caller enters sendMessage / fetchConversationMessages / a snapshot
\* handler and reaches its await ensureModelsLoaded().
EnsureCall(c) ==
  /\ call[c].pc = "idle" /\ call[c].inst = 0
  /\ EnsureEnter(c, [call EXCEPT ![c].inst = 1])
  /\ UNCHANGED <<lowPowerMode, cache, modelVars, inflight, store, subscribed, isProcessing,
                 lastCall, now, snapSeq, handed, delivered, deliveredAtUnsub, encPeak,
                 cacheHist, perfVars, auxVars, codecVars, loads, decHist>>

\* ------------------------------------------------------------ initial values
InitModule ==
  /\ modelsInitialized = FALSE /\ modelsInitializing = FALSE
  /\ lowPowerMode = FALSE /\ cache = <<>>
  /\ textEncoderModel = FALSE /\ imageEncoderModel = FALSE
  /\ textDecoderModel = FALSE /\ imageDecoderModel = FALSE

InitPipe ==
  /\ inits = <<>> /\ call = [c \in Calls |-> IdleCall] /\ inflight = {}
  /\ store = <<>> /\ subscribed = "no" /\ isProcessing = FALSE
  /\ lastCall = 0 /\ now = throttleMs /\ snapSeq = 0
  /\ handed = <<>> /\ delivered = <<>> /\ deliveredAtUnsub = -1 /\ encPeak = 0

\* no helper was called, the conversations collection is empty and no
\* createConversation was called
IdleProbe == [fn |-> "none"]

InitCodec ==
  /\ job = IdleJob /\ unit = <<>> /\ fresh = {} /\ redecoded = {}
  /\ probe = IdleProbe /\ convs = <<>> /\ cc = <<>>

InitCacheHist == recency = <<>> /\ evictions = <<>> /\ setKeys = [keys |-> {}, n |-> 0] /\ lastGet = 0

InitPerf ==
  /\ batteryLevel = 100 /\ isCharging = FALSE /\ appState = "active"
  /\ batterySubscription = FALSE /\ batteryStateListener = FALSE
  /\ appStateSubscription = FALSE /\ monPc = "new" /\ monLast = "none"

\* ------------------------------------------------------------ SpecInit
\* Three concurrent callers of ensureModelsLoaded, from a fresh process.
InitE ==
  /\ InitModule /\ InitPipe /\ InitCacheHist /\ InitPerf /\ InitCodec
  /\ loads = [textEncoder |-> 0, imageEncoder |-> 0, textDecoder |-> 0, imageDecoder |-> 0]

NextE ==
  \/ \E c \in Calls : EnsureCall(c)
  \/ \E c \in Calls : EnsureWake(c)
  \/ \E c \in Calls : EnsureFinish(c)
  \/ \E r \in 1..3, ok \in BOOLEAN : InitModelsStep(r, ok)
  \/ \E r \in 1..3, ok \in BOOLEAN : InitDecoderStep(r, ok)

SpecInit == InitE /\ [][NextE]_vars

\* C1: whatever the interleaving of the callers of ensureModelsLoaded, at most
\* one initModels/initDecoder pair is ever started, and every caller for which
\* ensureModelsLoaded has returned (those that found the initialization in
\* flight included) finds that one initialization finished.
C1_SingleInit ==
  /\ Len(inits) <= 1
  /\ \A c \in Calls :
       call[c].pc \in PostEnsurePcs =>
         /\ Len(inits) = 1
         /\ inits[1].enc = "done" /\ inits[1].dec = "done"
         /\ modelsInitialized

C1_Witness ==
  \E c \in Calls : call[c].waited /\ call[c].pc = "ensured" /\ Len(inits) = 1

\* ------------------------------------------------------------ SpecCache
\* The MessageCache alone, driven by arbitrary get / set / clear calls.
CacheIds == 1..(maxSize + 1)

CacheVals == {"a", "b"}

Without(s, k) == SelectSeq(s, LAMBDA x : x # k)

\* set was called for sk.n keys, all different
DistinctSets(sk) == Cardinality(sk.keys) = sk.n

\* messageCache.get(id)
CGet(id) ==
  /\ cache' = CacheGet(cache, id)
  /\ recency' = IF CacheHas(cache, id) THEN Append(Without(recency, id), id) ELSE recency
  /\ lastGet' = IF CacheHas(cache, id) THEN id ELSE 0
  /\ UNCHANGED <<modelsInitialized, modelsInitializing, lowPowerMode, modelVars, pipeVars,
                 evictions, setKeys, perfVars, auxVars, codecVars, loads, decHist>>

\* messageCache.set(id, msg)
CSet(id, msg) ==
  /\ setKeys.n < maxSize + 1
  /\ cache' = CacheSet(cache, id, msg)
  /\ LET gone == CacheKeys(cache) \ CacheKeys(cache') IN
       /\ evictions' = IF gone = {} THEN evictions
                       ELSE Append(evictions, [key |-> CHOOSE k \in gone : TRUE,
                                               oldest |-> Head(recency),
                                               newest |-> recency[Len(recency)],
                                               byGet |-> lastGet])
       /\ recency' = Append(SelectSeq(recency, LAMBDA x : x \notin gone /\ x # id), id)
  /\ setKeys' = [keys |-> setKeys.keys \cup {id}, n |-> setKeys.n + 1]
  /\ lastGet' = 0
  /\ UNCHANGED <<modelsInitialized, modelsInitializing, lowPowerMode, modelVars, pipeVars,
                 perfVars, auxVars, codecVars, loads, decHist>>

\* clearMessageCache()
CClear ==
  /\ cache' = CacheClear(cache)
  /\ recency' = <<>> /\ evictions' = <<>> /\ setKeys' = [keys |-> {}, n |-> 0] /\ lastGet' = 0
  /\ UNCHANGED <<modelsInitialized, modelsInitializing, lowPowerMode, modelVars, pipeVars,
                 perfVars, auxVars, codecVars, loads, decHist>>

NextC ==
  \/ \E id \in CacheIds : CGet(id)
  \/ \E id \in CacheIds, msg \in CacheVals : CSet(id, msg)
  \/ CClear

SpecCache == InitE /\ [][NextC]_vars

\* C3: from an empty cache of capacity maxSize, once set has been called for
\* maxSize + 1 distinct keys (gets interleaved at will), exactly one key has
\* been evicted, it is the key whose latest access was the oldest, every other
\* key is still cached, and the most recently accessed key (in particular a
\* key read by get right before the evicting set) is among them.
C3_EvictsLeastRecent ==
  (DistinctSets(setKeys) /\ setKeys.n = maxSize + 1) =>
     /\ Len(evictions) = 1
     /\ evictions[1].key = evictions[1].oldest
     /\ CacheKeys(cache) = setKeys.keys \ {evictions[1].key}
     /\ evictions[1].newest \in CacheKeys(cache)
     /\ evictions[1].byGet # 0 => evictions[1].byGet \in CacheKeys(cache)

C3_Witness ==
  /\ DistinctSets(setKeys) /\ setKeys.n = maxSize + 1
  /\ Len(evictions) = 1
  /\ evictions[1].byGet # 0
  /\ evictions[1].byGet \in CacheKeys(cache)
  /\ evictions[1].key \notin CacheKeys(cache)

\* ------------------------------------------------------------ SpecCapacity
\* The MessageCache with the capacity the code gives it, filled by the
\* decodeMessage calls of ever new messages while the mode is switched.
\* private maxSize = 50
CacheMaxSize == 50

\* getOptimizationRecommendations: maxCacheSize when not constrained
NormalCacheSize == 50

\* getOptimizationRecommendations: the reduced maxCacheSize
ConserveCacheSize == 20

\* setLowPowerMode(enabled)
SetLowPowerMode(enabled) ==
  /\ lowPowerMode' = enabled
  /\ UNCHANGED <<modelsInitialized, modelsInitializing, cache, modelVars, pipeVars, cacheHist,
                 perfVars, auxVars, codecVars, loads, decHist>>

\* decodeMessage has decoded the next message and caches it:
\* messageCache.set(message.id, decodedMessage)
CapSet ==
  /\ setKeys.n <= CacheMaxSize
  /\ cache' = CacheSetAt(CacheMaxSize, cache, setKeys.n + 1, "a")
  /\ setKeys' = [keys |-> setKeys.keys \cup {setKeys.n + 1}, n |-> setKeys.n + 1]
  /\ lastGet' = 0
  /\ UNCHANGED <<modelsInitialized, modelsInitializing, lowPowerMode, modelVars, pipeVars,
                 recency, evictions, perfVars, auxVars, codecVars, loads, decHist>>

NextCap ==
  \/ CapSet
  \/ \E id \in 1..2 : CGet(id)
  \/ \E enabled \in BOOLEAN : SetLowPowerMode(enabled)

SpecCapacity == InitE /\ [][NextCap]_vars

\* C16 (as claimed): the decode cache holds at most 20 entries while the mode
\* is Conserve and at most 50 while it is Normal.
C16_CapacityFollowsMode ==
  Len(cache) <= (IF lowPowerMode THEN ConserveCacheSize ELSE NormalCacheSize)

\* ------------------------------------------------------------ PerformanceMonitor
\* Battery levels are in percent: the code's 0.20 is 20 here.
LowBatteryPercent == 20

BatteryLevels == {0, 15, 19, 20, 21, 100}

AppStates == {"active", "background", "inactive"}

\* mutant of shouldEnableLowPower: the charging state is not consulted
ShouldEnableLowPowerNoCharge(state, charging, level) ==
  IF state # "active" THEN TRUE
  ELSE IF level < LowBatteryPercent THEN TRUE
  ELSE FALSE

\* PerformanceMonitor.shouldEnableLowPower
shouldEnableLowPower(state, charging, level) ==
  IF state # "active" THEN TRUE
  ELSE IF ~charging /\ level < LowBatteryPercent THEN TRUE
  ELSE FALSE

\* start() is entered and awaits Battery.getBatteryLevelAsync()
MonStart ==
  /\ monPc \in {"new", "started"}
  /\ monPc' = "level" /\ monLast' = "start"
  /\ UNCHANGED <<msVars, modelVars, pipeVars, cacheHist, auxVars, codecVars, loads, decHist,
                 batteryLevel, isCharging, appState, batterySubscription,
                 batteryStateListener, appStateSubscription>>

\* getBatteryLevelAsync resolves with level l, or rejects: the catch is taken,
\* the app-state listener is added and updatePerformanceMode runs.
MonGotLevel(ok, l) ==
  /\ monPc = "level"
  /\ monLast' = "start"
  /\ IF ok
     THEN /\ batteryLevel' = l /\ monPc' = "state"
          /\ UNCHANGED <<lowPowerMode, appStateSubscription>>
     ELSE /\ appStateSubscription' = TRUE /\ monPc' = "started"
          /\ lowPowerMode' = shouldEnableLowPower(appState, isCharging, batteryLevel)
          /\ UNCHANGED batteryLevel
  /\ UNCHANGED <<modelsInitialized, modelsInitializing, cache, modelVars, pipeVars,
                 cacheHist, auxVars, codecVars, loads, decHist, isCharging, appState,
                 batterySubscription, batteryStateListener>>

\* getBatteryStateAsync resolves (both battery listeners are added) or rejects;
\* either way the app-state listener is added and updatePerformanceMode runs.
MonGotState(ok, ch) ==
  /\ monPc = "state"
  /\ monLast' = "start" /\ monPc' = "started"
  /\ isCharging' = IF ok THEN ch ELSE isCharging
  /\ batterySubscription' = (batterySubscription \/ ok)
  /\ batteryStateListener' = (batteryStateListener \/ ok)
  /\ appStateSubscription' = TRUE
  /\ lowPowerMode' = shouldEnableLowPower(appState, isCharging', batteryLevel)
  /\ UNCHANGED <<modelsInitialized, modelsInitializing, cache, modelVars, pipeVars,
                 cacheHist, auxVars, codecVars, loads, decHist, batteryLevel, appState>>

\* the listener of Battery.addBatteryLevelListener runs
BatteryLevelEvent(l) ==
  /\ batterySubscription
  /\ batteryLevel' = l
  /\ lowPowerMode' = shouldEnableLowPower(appState, isCharging, l)
  /\ monLast' = "event"
  /\ UNCHANGED <<modelsInitialized, modelsInitializing, cache, modelVars, pipeVars,
                 cacheHist, auxVars, codecVars, loads, decHist, isCharging, appState,
                 batterySubscription, batteryStateListener, appStateSubscription, monPc>>

\* the listener of Battery.addBatteryStateListener runs
BatteryStateEvent(ch) ==
  /\ batteryStateListener
  /\ isCharging' = ch
  /\ lowPowerMode' = shouldEnableLowPower(appState, ch, batteryLevel)
  /\ monLast' = "event"
  /\ UNCHANGED <<modelsInitialized, modelsInitializing, cache, modelVars, pipeVars,
                 cacheHist, auxVars, codecVars, loads, decHist, batteryLevel, appState,
                 batterySubscription, batteryStateListener, appStateSubscription, monPc>>

\* the listener of AppState.addEventListener('change') runs
AppStateEvent(a) ==
  /\ appStateSubscription
  /\ appState' = a
  /\ lowPowerMode' = shouldEnableLowPower(a, isCharging, batteryLevel)
  /\ monLast' = "event"
  /\ UNCHANGED <<modelsInitialized, modelsInitializing, cache, modelVars, pipeVars,
                 cacheHist, auxVars, codecVars, loads, decHist, batteryLevel, isCharging,
                 batterySubscription, batteryStateListener, appStateSubscription, monPc>>

\* PerformanceMonitor.stop(): the two subscriptions it holds are removed
MonStop ==
  /\ monPc # "new"
  /\ batterySubscription' = FALSE
  /\ appStateSubscription' = FALSE
  /\ monLast' = "stop"
  /\ UNCHANGED <<msVars, modelVars, pipeVars, cacheHist, auxVars, codecVars, loads, decHist,
                 batteryLevel, isCharging, appState, batteryStateListener, monPc>>

NextP ==
  \/ MonStart
  \/ \E ok \in BOOLEAN, l \in BatteryLevels : MonGotLevel(ok, l)
  \/ \E ok \in BOOLEAN, ch \in BOOLEAN : MonGotState(ok, ch)
  \/ \E l \in BatteryLevels : BatteryLevelEvent(l)
  \/ \E ch \in BOOLEAN : BatteryStateEvent(ch)
  \/ \E a \in AppStates : AppStateEvent(a)
  \/ MonStop

SpecPerf == InitE /\ [][NextP]_vars

\* C4: right after PerformanceMonitor has handled a battery-level,
\* charging-state or app-state event, the published low-power mode is Conserve
\* exactly when (battery below 20% and not charging) or the app is not in the
\* foreground; 15% / not charging / foreground is Conserve and
\* 15% / charging / foreground is Normal.
C4_ModeAfterEvent ==
  monLast = "event" =>
     /\ lowPowerMode = ((batteryLevel < 20 /\ ~isCharging) \/ appState # "active")
     /\ (batteryLevel = 15 /\ ~isCharging /\ appState = "active") => lowPowerMode
     /\ (batteryLevel = 15 /\ isCharging /\ appState = "active") => ~lowPowerMode

C4_Witness ==
  /\ monLast = "event" /\ batteryLevel = 15 /\ isCharging /\ appState = "active"
  /\ ~lowPowerMode

\* ------------------------------------------------------------ receive pipeline
\* The limitCount arguments tried; 50 is the default.
LimitCounts == {2, 50}

\* the records of the store a decode of which throws: a text, image or audio
\* record whose latentVectors array is empty makes decodeData pass undefined
\* to the decoder, whose fallback dereferences it
Throws(msg) == msg.bad

\* PARALLEL_LIMIT = lowPowerMode ? 2 : 5
ParallelLimit(low) == IF low THEN 2 ELSE 5

\* mutant of BatchOf: the whole rest of the list is decoded at once
BatchOfAll(rec) == (rec.i + 1)..Len(rec.raw)

\* rawMessages.slice(i, i + PARALLEL_LIMIT), as indices into rawMessages
BatchOf(rec) == (rec.i + 1)..Min(rec.i + rec.limit, Len(rec.raw))

\* mutant of ThrottlePasses: every call is let through
ThrottlePassesAlways(t, last, delay) == TRUE

\* throttle: now - lastCall >= delay
ThrottlePasses(t, last, delay) == t - last >= delay

\* the DecodedMessage built by decodeMessage from a raw message: the message
\* with the decodedContent and quality of decodeData added
Decoded(msg) == [id |-> msg.id, bad |-> msg.bad, complete |-> msg.complete,
                 isRead |-> msg.isRead, decodedContent |-> TRUE]

\* The cache lookups that the decodeMessage calls of one batch make, in the
\* order of batch.map: the cache afterwards and the hits.
RECURSIVE BatchLookup(_, _, _, _)
BatchLookup(cch, raw, k, hi) ==
  IF k > hi THEN [cache |-> cch, hits |-> {}]
  ELSE LET id == raw[k].id
           hit == CacheHas(cch, id)
           rest == BatchLookup(CacheGet(cch, id), raw, k + 1, hi)
       IN  [cache |-> rest.cache,
            hits |-> IF hit THEN rest.hits \cup {[k |-> k, val |-> CacheVal(cch, id)]}
                     ELSE rest.hits]

\* the decoded messages of a batch, in the order of the batch (Promise.all)
RECURSIVE BatchValues(_, _, _)
BatchValues(got, k, hi) ==
  IF k > hi THEN <<>>
  ELSE <<(CHOOSE g \in got : g.k = k).val>> \o BatchValues(got, k + 1, hi)

Ids(list) == [k \in 1..Len(list) |-> list[k].id]

\* the values Date.now() can return next: the clock does not go back
Clock == now..(throttleMs + MaxTicks)

\* The decode loop from its head, for invocation c in state rec, with cache
\* cch and outstanding decodes infl: either the next batch is started (every
\* decodeMessage of it runs up to its await decodeData) or the loop is over
\* and the function finishes; t is what Date.now() returns to throttle then.
Proceed(c, rec, cch, infl, t) ==
  IF rec.i < Len(rec.raw)
  THEN LET b == BatchOf(rec)
           lk == BatchLookup(cch, rec.raw, rec.i + 1, rec.i + Cardinality(b))
           misses == {k \in b : \A g \in lk.hits : g.k # k}
       IN  /\ call' = [call EXCEPT ![c] = [rec EXCEPT !.pc = "batch", !.got = lk.hits]]
           /\ cache' = lk.cache
           /\ inflight' = infl \cup {[call |-> c, inst |-> rec.inst, k |-> k,
                                      msg |-> rec.raw[k], batch |-> rec.i,
                                      low |-> rec.sampled] : k \in misses}
           /\ fresh' = fresh \cup {rec.raw[k].id : k \in misses}
           /\ redecoded' = redecoded \cup ({rec.raw[k].id : k \in misses} \cap fresh)
           /\ UNCHANGED <<isProcessing, lastCall, handed, delivered, now>>
  ELSE /\ cache' = cch
       /\ inflight' = infl
       /\ UNCHANGED decHist
       /\ IF c = "fetch"
          THEN /\ call' = [call EXCEPT ![c] = [rec EXCEPT !.pc = "done", !.res = "returned",
                                                          !.value = Reverse(rec.out)]]
               /\ UNCHANGED <<isProcessing, lastCall, handed, delivered, now>>
          ELSE /\ call' = [call EXCEPT ![c] = [rec EXCEPT !.pc = "idle"]]
               /\ now' = t
               /\ handed' = Append(handed, [snap |-> rec.inst, t |-> t, list |-> Ids(rec.out)])
               /\ IF ThrottlePasses(t, lastCall, throttleMs)
                  THEN /\ lastCall' = t
                       /\ delivered' = Append(delivered, [snap |-> rec.inst, t |-> t,
                                                          list |-> Ids(rec.out)])
                  ELSE UNCHANGED <<lastCall, delivered>>
               /\ isProcessing' = FALSE

\* fetchConversationMessages(conversationId, lim) is called
FetchCall(lim) ==
  /\ call["fetch"].pc = "idle" /\ call["fetch"].inst = 0
  /\ subscribed = "no"
  /\ EnsureEnter("fetch", [call EXCEPT !["fetch"].inst = 1, !["fetch"].limitCount = lim])
  /\ UNCHANGED <<lowPowerMode, cache, modelVars, inflight, store, subscribed, isProcessing,
                 lastCall, now, snapSeq, handed, delivered, deliveredAtUnsub, encPeak,
                 cacheHist, perfVars, auxVars, codecVars, loads, decHist>>

\* ensureModelsLoaded has returned: the query is built and getDocs is issued
FetchQuery ==
  /\ call["fetch"].pc = "ensured"
  /\ call' = [call EXCEPT !["fetch"].pc = "getDocs",
                          !["fetch"].attempts = call["fetch"].attempts + 1]
  /\ UNCHANGED <<msVars, modelVars, inits, inflight, store, subscribed, isProcessing,
                 lastCall, now, snapSeq, handed, delivered, deliveredAtUnsub, encPeak,
                 cacheHist, perfVars, auxVars, codecVars, loads, decHist>>

\* getDocs resolves (the newest limitCount records, newest first) and the
\* decode loop starts, or it rejects and the catch returns [].
FetchGetDocs(ok) ==
  /\ call["fetch"].pc = "getDocs"
  /\ IF ok
     THEN Proceed("fetch",
                  [call["fetch"] EXCEPT !.raw = Take(Reverse(store), call["fetch"].limitCount),
                                        !.limit = ParallelLimit(lowPowerMode),
                                        !.sampled = lowPowerMode],
                  cache, inflight, now)
     ELSE /\ call' = [call EXCEPT !["fetch"].pc = "done", !["fetch"].storeErr = TRUE,
                                  !["fetch"].res = "returned", !["fetch"].value = <<>>]
          /\ UNCHANGED <<cache, inflight, isProcessing, lastCall, handed, delivered, now,
                         decHist>>
  /\ UNCHANGED <<modelsInitialized, modelsInitializing, lowPowerMode, modelVars, inits, store,
                 subscribed, snapSeq, deliveredAtUnsub, encPeak, cacheHist, perfVars,
                 auxVars, codecVars, loads>>

\* listenToMessages is called: onSnapshot registers the handler (ok), or the
\* store call throws and the exception leaves listenToMessages.
ListenCall(ok) ==
  /\ subscribed = "no"
  /\ call["fetch"].inst = 0
  /\ subscribed' = IF ok THEN "yes" ELSE "threw"
  /\ call' = [call EXCEPT !["snap"].attempts = call["snap"].attempts + 1,
                          !["snap"].storeErr = ~ok,
                          !["snap"].errSeen = ~ok]
  /\ UNCHANGED <<msVars, modelVars, inits, inflight, store, isProcessing, lastCall, now,
                 snapSeq, handed, delivered, deliveredAtUnsub, encPeak, cacheHist, perfVars,
                 auxVars, codecVars, loads, decHist>>

\* The store reports an error of the subscription.  onSnapshot was given no
\* error callback, so nothing of the service runs and the caller is not told.
SubscribeFails ==
  /\ subscribed = "yes"
  /\ subscribed' = "failed"
  /\ call' = [call EXCEPT !["snap"].storeErr = TRUE]
  /\ UNCHANGED <<msVars, modelVars, inits, inflight, store, isProcessing, lastCall, now,
                 snapSeq, handed, delivered, deliveredAtUnsub, encPeak, cacheHist, perfVars,
                 auxVars, codecVars, loads, decHist>>

\* mutant of Busy: the handler never takes the early return
BusyNever(processing) == FALSE

\* if (isProcessing) return
Busy(processing) == processing

\* The handler given to onSnapshot is called with the documents docs: it
\* returns at once while isProcessing is set, else it sets the flag and awaits
\* ensureModelsLoaded.
OnSnapshot(docs) ==
  /\ subscribed = "yes" /\ snapSeq < MaxSnaps
  /\ snapSeq' = snapSeq + 1
  /\ IF Busy(isProcessing)
     THEN UNCHANGED <<isProcessing, call, modelsInitializing, inits, modelsInitialized>>
     ELSE /\ isProcessing' = TRUE
          /\ EnsureEnter("snap", [call EXCEPT !["snap"] =
                 [IdleCall EXCEPT !.inst = snapSeq + 1, !.raw = docs,
                                  !.attempts = call["snap"].attempts,
                                  !.storeErr = call["snap"].storeErr,
                                  !.errSeen = call["snap"].errSeen]])
  /\ UNCHANGED <<lowPowerMode, cache, modelVars, inflight, subscribed, lastCall, now,
                 handed, delivered, deliveredAtUnsub, encPeak, cacheHist, perfVars,
                 auxVars, codecVars, loads, decHist>>

\* The store pushes a snapshot of the conversation as it is.
Snapshot == OnSnapshot(store) /\ UNCHANGED store

\* A message is added to the conversation by its sender (the record that
\* sendMessage writes) and the store pushes the snapshot with it.
StoreAdds ==
  LET docs == Append(store, [id |-> Len(store) + 1, bad |-> FALSE, complete |-> TRUE,
                             isRead |-> FALSE])
  IN  /\ Len(store) < MaxStreamMsgs
      /\ store' = docs /\ OnSnapshot(docs)

\* The record of message k is updated in the store (it is marked as read) and
\* the store pushes the snapshot with the updated record.
StoreMarksRead(k) ==
  LET docs == [store EXCEPT ![k].isRead = TRUE]
  IN  /\ k \in 1..Len(store) /\ ~store[k].isRead
      /\ store' = docs /\ OnSnapshot(docs)

\* ensureModelsLoaded has returned in the handler: the documents are mapped,
\* PARALLEL_LIMIT is computed and the decode loop starts.
SnapContinue(t) ==
  /\ call["snap"].pc = "ensured"
  /\ Proceed("snap", [call["snap"] EXCEPT !.limit = ParallelLimit(lowPowerMode),
                                          !.sampled = lowPowerMode],
             cache, inflight, t)
  /\ UNCHANGED <<modelsInitialized, modelsInitializing, lowPowerMode, modelVars, inits, store,
                 subscribed, snapSeq, deliveredAtUnsub, encPeak, cacheHist, perfVars,
                 auxVars, codecVars, loads>>

\* the decodeMessage call d belongs to the Promise.all its caller is awaiting
Current(d) == call[d.call].inst = d.inst /\ call[d.call].pc = "batch"

\* decodeData of an outstanding decodeMessage settles.  Resolved: the message
\* is cached and becomes a result of its batch.  Rejected: Promise.all
\* rejects, and the catch of the caller ends the invocation (fetch returns
\* [], the handler logs and clears isProcessing).
DecodeDone(d) ==
  /\ d \in inflight
  /\ inflight' = inflight \ {d}
  /\ IF ~Throws(d.msg)
     THEN /\ cache' = CacheSet(cache, d.msg.id, Decoded(d.msg))
          /\ fresh' = fresh \ (CacheKeys(cache) \ CacheKeys(cache'))
          /\ call' = IF Current(d)
                     THEN [call EXCEPT ![d.call].got =
                              call[d.call].got \cup {[k |-> d.k, val |-> Decoded(d.msg)]}]
                     ELSE call
          /\ UNCHANGED isProcessing
     ELSE /\ UNCHANGED cache
          /\ fresh' = fresh \ {d.msg.id}
          /\ IF Current(d)
             THEN IF d.call = "fetch"
                  THEN /\ call' = [call EXCEPT !["fetch"].pc = "done",
                                               !["fetch"].res = "returned",
                                               !["fetch"].value = <<>>]
                       /\ UNCHANGED isProcessing
                  ELSE /\ call' = [call EXCEPT ![d.call].pc = "idle"]
                       /\ isProcessing' = FALSE
             ELSE UNCHANGED <<call, isProcessing>>
  /\ redecoded' = redecoded
  /\ UNCHANGED <<modelsInitialized, modelsInitializing, lowPowerMode, modelVars, inits, store,
                 subscribed, lastCall, now, snapSeq, handed, delivered, deliveredAtUnsub,
                 encPeak, cacheHist, perfVars, auxVars, codecVars, loads>>

\* Promise.all of the current batch resolves: its results are pushed in batch
\* order, i advances and the loop goes on.
BatchDone(c, t) ==
  /\ call[c].pc = "batch"
  /\ \A k \in BatchOf(call[c]) : \E g \in call[c].got : g.k = k
  /\ Proceed(c, [call[c] EXCEPT
                   !.out = call[c].out \o
                           BatchValues(call[c].got, call[c].i + 1,
                                       call[c].i + Cardinality(BatchOf(call[c]))),
                   !.i = call[c].i + call[c].limit,
                   !.got = {}],
             cache, inflight, t)
  /\ UNCHANGED <<modelsInitialized, modelsInitializing, lowPowerMode, modelVars, inits, store,
                 subscribed, snapSeq, deliveredAtUnsub, encPeak, cacheHist, perfVars,
                 auxVars, codecVars, loads>>

\* the unsubscribe function returned by listenToMessages is called
Unsubscribe ==
  /\ subscribed = "yes"
  /\ subscribed' = "cancelled"
  /\ deliveredAtUnsub' = Len(delivered)
  /\ UNCHANGED <<msVars, modelVars, inits, call, inflight, store, isProcessing, lastCall,
                 now, snapSeq, handed, delivered, encPeak, cacheHist, perfVars, auxVars, codecVars,
                 loads, decHist>>

\* The receive pipeline of a process whose models were initialized by an
\* earlier call, over a store of up to MaxMsgs records.
StoreOf(n, B) ==
  [k \in 1..n |-> [id |-> k, bad |-> k \in B, complete |-> TRUE, isRead |-> FALSE]]

InitR ==
  /\ modelsInitialized = TRUE /\ modelsInitializing = FALSE
  /\ lowPowerMode \in BOOLEAN /\ cache = <<>>
  /\ textEncoderModel = TRUE /\ imageEncoderModel = TRUE
  /\ textDecoderModel = TRUE /\ imageDecoderModel = TRUE
  /\ inits = <<>> /\ call = [c \in Calls |-> IdleCall] /\ inflight = {}
  /\ \E n \in 0..MaxMsgs : \E B \in SUBSET (1..n) :
        /\ Cardinality(B) <= MaxBad /\ (B # {} => n <= MaxBadMsgs)
        /\ store = StoreOf(n, B)
  /\ subscribed = "no" /\ isProcessing = FALSE
  /\ lastCall = 0 /\ now = throttleMs /\ snapSeq = 0
  /\ handed = <<>> /\ delivered = <<>> /\ deliveredAtUnsub = -1 /\ encPeak = 0
  /\ InitCacheHist /\ InitPerf /\ InitCodec
  /\ loads = [textEncoder |-> 1, imageEncoder |-> 1, textDecoder |-> 1, imageDecoder |-> 1]

Next ==
  \/ \E lim \in LimitCounts : FetchCall(lim)
  \/ FetchQuery
  \/ \E ok \in BOOLEAN : FetchGetDocs(ok)
  \/ \E ok \in BOOLEAN : ListenCall(ok)
  \/ SubscribeFails
  \/ Snapshot
  \/ \E t \in Clock : SnapContinue(t)
  \/ \E d \in inflight : DecodeDone(d)
  \/ \E c \in {"fetch", "snap"}, t \in Clock : BatchDone(c, t)
  \/ Unsubscribe
  \/ \E enabled \in BOOLEAN : SetLowPowerMode(enabled)

Spec == InitR /\ [][Next]_vars

\* One listener over a conversation that changes while it is subscribed; the
\* conversation holds up to MaxStreamMsgs records.
InitT == InitR /\ Len(store) <= MaxStreamMsgs

NextT ==
  \/ \E ok \in BOOLEAN : ListenCall(ok)
  \/ SubscribeFails
  \/ Snapshot
  \/ StoreAdds
  \/ \E k \in 1..Len(store) : StoreMarksRead(k)
  \/ \E t \in Clock : SnapContinue(t)
  \/ \E d \in inflight : DecodeDone(d)
  \/ \E t \in Clock : BatchDone("snap", t)
  \/ Unsubscribe

SpecStream == InitT /\ [][NextT]_vars

\* the decodeMessage calls outstanding that invocation inst of c started
Outstanding(c, inst) == {d \in inflight : d.call = c /\ d.inst = inst}

\* the records of a raw list whose decode does not throw
Decodable(raw) == {raw[k].id : k \in {j \in 1..Len(raw) : ~Throws(raw[j])}}

\* C2 (as claimed): when the decode of one message of a batch throws, every
\* other message of the list is still decoded and returned by
\* fetchConversationMessages, resp. handed to the listener's callback.
C2_OthersStillDelivered ==
  /\ (call["fetch"].pc = "done" /\ ~call["fetch"].storeErr) =>
        Decodable(call["fetch"].raw) \subseteq Range(Ids(call["fetch"].value))
  /\ (call["snap"].pc = "idle" /\ call["snap"].inst > 0) =>
        \A id \in Decodable(call["snap"].raw) :
           \E h \in Range(handed) : h.snap = call["snap"].inst /\ id \in Range(h.list)

\* C5: two consecutive invocations of the caller's callback are at least
\* throttleMs apart; the callback is invoked only at the moment a decoded list
\* is handed to the throttle, so a list that is handed over less than
\* throttleMs after the previous invocation is dropped and never delivered.
C5_ThrottleSpacing ==
  /\ \A j \in 1..(Len(delivered) - 1) : delivered[j + 1].t - delivered[j].t >= throttleMs
  /\ \A j \in 1..Len(delivered) : [snap |-> delivered[j].snap, t |-> delivered[j].t,
                                   list |-> delivered[j].list] \in Range(handed)
  /\ \A j, k \in 1..Len(delivered) : delivered[j].snap = delivered[k].snap => j = k
  /\ \A h \in Range(handed) :
        (\E j \in 1..Len(delivered) :
            /\ delivered[j].snap < h.snap
            /\ h.t - delivered[j].t < throttleMs)
        => \A j \in 1..Len(delivered) : delivered[j].snap # h.snap

C5_Witness ==
  /\ Len(handed) = 2 /\ Len(delivered) = 1
  /\ handed[2].t - delivered[1].t < throttleMs
  /\ call["snap"].pc = "idle"

C8_NoCallbackAfterUnsubscribe ==
  subscribed = "cancelled" => Len(delivered) = deliveredAtUnsub

\* C9 (as claimed): a failure of the store during the write, the fetch or the
\* subscription reaches the caller as that error, and the failed store
\* operation is not attempted a second time.
C9_StoreFailurePropagated ==
  \A c \in Calls :
     /\ call[c].storeErr => call[c].errSeen
     /\ call[c].attempts <= 1

\* C18 (as claimed): a message given to decodeData is cached once its decode
\* has succeeded, and a message is given to decodeData again only after its
\* cache entry was evicted.
C18_DecodedOncePerResidency ==
  /\ \A id \in fresh : CacheHas(cache, id) \/ \E d \in inflight : d.msg.id = id
  /\ redecoded = {}

\* the newest n records of a list in ascending timestamp order
LastOf(s, n) == SubSeq(s, Len(s) - Min(n, Len(s)) + 1, Len(s))

LATENT_DIM == 512

\* the length of Array.from(output[0]): the output tensor of the CLIP models
\* has LATENT_DIM elements
ModelVectorLength == LATENT_DIM

\* the length of the vector fallbackEncodeText returns for a text of len
\* characters: new Array(LATENT_DIM), every element overwritten
fallbackEncodeText(len) == LATENT_DIM

\* the same for fallbackEncodeImage and an image of len bytes
fallbackEncodeImage(len) == LATENT_DIM

\* mutant of fallbackEncodeChunk: one element for every element of the chunk
FallbackEncodeChunkRaw(len) == len

\* the same for fallbackEncodeChunk and a chunk of len elements
fallbackEncodeChunk(len) == LATENT_DIM

\* the model handle a unit of the encoder ("enc") or decoder ("dec") uses
HandleSet(side, model) ==
  CASE side = "enc" /\ model = "text" -> textEncoderModel
    [] side = "enc" /\ model = "image" -> imageEncoderModel
    [] side = "dec" /\ model = "text" -> textDecoderModel
    [] OTHER -> imageDecoderModel

\* The calls of encodeTextWithCLIP / encodeImageWithCLIP (side "enc") or
\* decodeTextWithCLIP / decodeImageWithCLIP (side "dec") made in one
\* synchronous segment for the inputs ins (byte lengths, resp. vector lengths,
\* a negative length standing for undefined).  Each runs to its first await:
\* with the handle null it awaits initModels() / initDecoder(), which is run
\* number first + k of inits, else it awaits the inference of the model.
UnitsFor(side, model, ins, first) ==
  [k \in 1..Len(ins) |->
     [side |-> side, model |-> model, vlen |-> ins[k],
      pc |-> IF HandleSet(side, model) THEN "infer" ELSE "init",
      run |-> IF HandleSet(side, model) THEN 0 ELSE first + k,
      modelFailed |-> FALSE, path |-> "none", out |-> 0]]

\* the initModels() / initDecoder() runs those calls start
RunsFor(side, model, n) ==
  IF HandleSet(side, model) THEN <<>>
  ELSE [k \in 1..n |->
          [owner |-> "unit",
           enc |-> IF side = "enc" THEN InitStart(textEncoderModel, imageEncoderModel)
                   ELSE "done",
           dec |-> IF side = "dec" THEN InitStart(textDecoderModel, imageDecoderModel)
                   ELSE "done",
           joined |-> TRUE]]

\* The fallback encoder / decoder of a unit.  The fallback decoders of text
\* and image dereference the vector, which throws when it is undefined.
Fallback(un) ==
  IF un.side = "enc"
  THEN [un EXCEPT !.pc = "done", !.path = "fallback",
                  !.out = IF un.model = "text" THEN fallbackEncodeText(un.vlen)
                          ELSE fallbackEncodeImage(un.vlen)]
  ELSE IF un.vlen < 0 THEN [un EXCEPT !.pc = "threw", !.path = "fallback"]
       ELSE [un EXCEPT !.pc = "done", !.path = "fallback"]

\* mutant of OnModelError: the error of the model leaves the unit
OnModelErrorRethrow(un) == [un EXCEPT !.pc = "threw", !.path = "model", !.modelFailed = TRUE]

\* the catch around tokenization / preprocessing / inference: a warning is
\* logged and the unit goes on to the fallback
OnModelError(un) == Fallback([un EXCEPT !.modelFailed = TRUE])

\* await initModels() / initDecoder() of unit u has resolved: with the handle
\* set the inference is issued, else (the load failed) the fallback is taken
UnitInitDone(u) ==
  /\ u \in 1..Len(unit) /\ unit[u].pc = "init"
  /\ inits[unit[u].run].enc = "done" /\ inits[unit[u].run].dec = "done"
  /\ unit' = [unit EXCEPT ![u] = IF HandleSet(unit[u].side, unit[u].model)
                                 THEN [unit[u] EXCEPT !.pc = "infer"]
                                 ELSE OnModelError(unit[u])]
  /\ UNCHANGED <<msVars, modelVars, pipeVars, cacheHist, perfVars, auxVars, job, loads, decHist>>

\* the inference of unit u resolves (ok: the unit returns the output of the
\* model) or tokenization, preprocessing or inference throws
UnitInfer(u, ok) ==
  /\ u \in 1..Len(unit) /\ unit[u].pc = "infer"
  /\ unit' = [unit EXCEPT ![u] = IF ok
                                 THEN [unit[u] EXCEPT !.pc = "done", !.path = "model",
                                                      !.out = ModelVectorLength]
                                 ELSE OnModelError(unit[u])]
  /\ UNCHANGED <<msVars, modelVars, pipeVars, cacheHist, perfVars, auxVars, job, loads, decHist>>

\* ------------------------------------------------------------ sendMessage
DataTypes == {"text", "image", "audio", "video", "file"}

\* byte lengths of the data argument
DataSizes == {0, 1, 5, 2048, 2049, 5000}

\* metadata.keyframesPerSecond
FrameRates == {1, 2}

\* the chunk size encodeData passes to chunkBytes
EncodeChunkSize == 2048

\* the chunk size of fallbackDecodeChunk
DecodeChunkSize == 2048

\* getOptimalChunkSize() of the message service
getOptimalChunkSize(low) == IF low THEN 1024 ELSE 2048

\* chunkBytes(bytes, chunkSize).length
NumChunks(size, chunkSize) == (size + chunkSize - 1) \div chunkSize

\* mutant of extractKeyframes: fps frames for each of three seconds of video
ExtractKeyframesSampled(size, framesPerSecond) == [k \in 1..(3 * framesPerSecond) |-> size]

\* extractKeyframes: the whole video is returned as the only frame
extractKeyframes(size, framesPerSecond) == <<size>>

\* audioToSpectrogram: the audio bytes are returned as the spectrogram image
audioToSpectrogram(size) == size

\* the bytes of one float32 component
BytesPerFloat == 4

RECURSIVE Gcd(_, _)
Gcd(a, b) == IF b = 0 THEN a ELSE Gcd(b, a % b)

\* a / b of two non-negative numbers: the quotient as a fraction in lowest
\* terms, Infinity for a positive number over 0 and NaN for 0 / 0
Divide(a, b) ==
  IF b = 0 THEN [nan |-> a = 0, num |-> IF a = 0 THEN 0 ELSE 1, den |-> 0]
  ELSE [nan |-> FALSE, num |-> a \div Gcd(a, b), den |-> b \div Gcd(a, b)]

\* mutant of SendOrder: the record is written before the data is encoded
SendOrderWriteFirst == <<"ensure", "write", "encode">>

\* sendMessage: ensureModelsLoaded, then encodeData, then addDoc
SendOrder == <<"ensure", "encode", "write">>

\* sendMessage(conversationId, senderId, receiverId, data, type, metadata)
SendCall(type, size, fps) ==
  /\ call["send"].pc = "idle" /\ call["send"].inst = 0
  /\ job.pc = "idle"
  /\ EnsureEnter("send", [call EXCEPT !["send"].inst = 1, !["send"].step = 1,
                                      !["send"].type = type, !["send"].size = size,
                                      !["send"].fps = fps])
  /\ UNCHANGED <<lowPowerMode, cache, modelVars, inflight, store, subscribed, isProcessing,
                 lastCall, now, snapSeq, handed, delivered, deliveredAtUnsub, encPeak,
                 cacheHist, perfVars, auxVars, codecVars, loads, decHist>>

\* An await of sendMessage has resolved and the function runs on to its next
\* await.  Before encodeData: its head runs, which converts the data (throws:
\* the runtime cannot convert it) and calls the encoder of the one unit of a
\* text or image payload, awaits audioToSpectrogram for audio and
\* extractKeyframes for a video, and chunks a file and encodes every chunk
\* synchronously.  Before addDoc: the message is built and the write is
\* issued.  After the last await: return.
SendStage(throws) ==
  LET r == call["send"]
      nxt == r.step + 1
      stage == IF nxt <= Len(SendOrder) THEN SendOrder[nxt] ELSE "return"
      model == IF r.type = "text" THEN "text" ELSE "image" IN
  /\ r.pc \in {"ensured", "staged"}
  /\ throws => stage = "encode"
  /\ CASE stage = "encode" /\ throws ->
            /\ call' = [call EXCEPT !["send"].step = nxt, !["send"].pc = "done",
                                    !["send"].res = "threw", !["send"].failed = "convert"]
            /\ UNCHANGED <<encPeak, inits, unit>>
       [] stage = "encode" /\ ~throws /\ r.type \in {"text", "image"} ->
            /\ call' = [call EXCEPT !["send"].step = nxt, !["send"].pc = "encode",
                                    !["send"].units = {1}, !["send"].nvec = 1]
            /\ unit' = UnitsFor("enc", model, <<r.size>>, Len(inits))
            /\ inits' = inits \o RunsFor("enc", model, 1)
            /\ encPeak' = Max(encPeak, 1)
       [] stage = "encode" /\ ~throws /\ r.type = "audio" ->
            /\ call' = [call EXCEPT !["send"].step = nxt, !["send"].pc = "spectrogram"]
            /\ UNCHANGED <<encPeak, inits, unit>>
       [] stage = "encode" /\ ~throws /\ r.type = "video" ->
            /\ call' = [call EXCEPT !["send"].step = nxt, !["send"].pc = "keyframes"]
            /\ UNCHANGED <<encPeak, inits, unit>>
       [] stage = "encode" /\ ~throws /\ r.type = "file" ->
            /\ call' = [call EXCEPT
                 !["send"].step = nxt, !["send"].pc = "encode", !["send"].units = {},
                 !["send"].chunk = EncodeChunkSize, !["send"].lowAtSplit = lowPowerMode,
                 !["send"].nvec = NumChunks(r.size, EncodeChunkSize),
                 !["send"].vlens = [k \in 1..NumChunks(r.size, EncodeChunkSize) |->
                                      fallbackEncodeChunk(EncodeChunkSize)]]
            /\ encPeak' = Max(encPeak, Min(1, NumChunks(r.size, EncodeChunkSize)))
            /\ unit' = <<>>
            /\ UNCHANGED inits
       [] stage = "write" ->
            /\ call' = [call EXCEPT !["send"].step = nxt, !["send"].pc = "write",
                                    !["send"].attempts = r.attempts + 1]
            /\ UNCHANGED <<encPeak, inits, unit>>
       [] stage = "return" ->
            /\ call' = [call EXCEPT !["send"].step = nxt, !["send"].pc = "done",
                                    !["send"].res = "returned"]
            /\ UNCHANGED <<encPeak, inits, unit>>
  /\ UNCHANGED <<msVars, modelVars, inflight, store, subscribed, isProcessing, lastCall, now,
                 snapSeq, handed, delivered, deliveredAtUnsub, cacheHist, perfVars, auxVars, job,
                 loads, decHist>>

\* extractKeyframes (video) or audioToSpectrogram (audio) resolves:
\* encodeImageWithCLIP is called for every frame inside one Promise.all, resp.
\* for the spectrogram
SendKeyframes ==
  LET r == call["send"]
      frames == IF r.pc = "keyframes" THEN extractKeyframes(r.size, r.fps)
                ELSE <<audioToSpectrogram(r.size)>> IN
  /\ r.pc \in {"keyframes", "spectrogram"}
  /\ call' = [call EXCEPT !["send"].pc = "encode", !["send"].units = 1..Len(frames),
                          !["send"].nvec = Len(frames)]
  /\ unit' = UnitsFor("enc", "image", frames, Len(inits))
  /\ inits' = inits \o RunsFor("enc", "image", Len(frames))
  /\ encPeak' = Max(encPeak, Len(frames))
  /\ UNCHANGED <<msVars, modelVars, inflight, store, subscribed, isProcessing, lastCall, now,
                 snapSeq, handed, delivered, deliveredAtUnsub, cacheHist, perfVars, auxVars, job,
                 loads, decHist>>

\* the encodeTextWithCLIP / encodeImageWithCLIP call of unit u has settled and
\* encodeData takes its vector (a unit never rejects: a model failure ends in
\* the fallback encoder; were it to reject, encodeData and sendMessage would
\* throw)
EncodeUnitDone(u) ==
  /\ call["send"].pc = "encode" /\ u \in call["send"].units
  /\ unit[u].pc \in {"done", "threw"}
  /\ call' = IF unit[u].pc = "done"
             THEN [call EXCEPT !["send"].units = call["send"].units \ {u}]
             ELSE [call EXCEPT !["send"].pc = "done", !["send"].res = "threw",
                               !["send"].failed = "model"]
  /\ UNCHANGED <<msVars, modelVars, inits, inflight, store, subscribed, isProcessing,
                 lastCall, now, snapSeq, handed, delivered, deliveredAtUnsub, encPeak,
                 cacheHist, perfVars, auxVars, codecVars, loads, decHist>>

\* every unit is encoded: encodeData computes the sizes and the ratio and
\* returns the EncodedData
SendEncoded ==
  /\ call["send"].pc = "encode" /\ call["send"].units = {}
  /\ LET r == call["send"]
         latentVectors == IF r.type = "file" THEN r.vlens
                          ELSE [k \in 1..Len(unit) |-> unit[k].out]
         encodedSize == Len(latentVectors) * LATENT_DIM * BytesPerFloat IN
     call' = [call EXCEPT !["send"].pc = "staged", !["send"].assembled = TRUE,
                          !["send"].vlens = latentVectors,
                          !["send"].encodedSize = encodedSize,
                          !["send"].ratio = Divide(r.size, encodedSize)]
  /\ UNCHANGED <<msVars, modelVars, inits, inflight, store, subscribed, isProcessing,
                 lastCall, now, snapSeq, handed, delivered, deliveredAtUnsub, encPeak,
                 cacheHist, perfVars, auxVars, codecVars, loads, decHist>>

\* addDoc resolves (the record is in the store) or rejects (it is not, and
\* the catch of sendMessage rethrows the error)
SendWriteDone(ok) ==
  LET r == call["send"] IN
  /\ r.pc = "write"
  /\ IF ok
     THEN /\ store' = Append(store, [id |-> Len(store) + 1, bad |-> FALSE,
                                     complete |-> r.assembled, isRead |-> FALSE])
          /\ call' = [call EXCEPT !["send"].pc = "staged", !["send"].wrote = r.wrote + 1]
     ELSE /\ call' = [call EXCEPT !["send"].pc = "done", !["send"].res = "threw",
                                  !["send"].storeErr = TRUE, !["send"].errSeen = TRUE,
                                  !["send"].failed = "store"]
          /\ UNCHANGED store
  /\ UNCHANGED <<msVars, modelVars, inits, inflight, subscribed, isProcessing,
                 lastCall, now, snapSeq, handed, delivered, deliveredAtUnsub, encPeak,
                 cacheHist, perfVars, auxVars, codecVars, loads, decHist>>

\* One sendMessage call in a fresh process, over an empty store.
NextS ==
  \/ \E type \in DataTypes, size \in DataSizes, fps \in FrameRates : SendCall(type, size, fps)
  \/ \E r \in 1..Len(inits), ok \in BOOLEAN : InitModelsStep(r, ok)
  \/ \E r \in 1..Len(inits), ok \in BOOLEAN : InitDecoderStep(r, ok)
  \/ EnsureFinish("send")
  \/ \E throws \in BOOLEAN : SendStage(throws)
  \/ SendKeyframes
  \/ \E u \in 1..Len(unit) : UnitInitDone(u)
  \/ \E u \in 1..Len(unit), ok \in BOOLEAN : UnitInfer(u, ok)
  \/ \E u \in call["send"].units : EncodeUnitDone(u)
  \/ SendEncoded
  \/ \E ok \in BOOLEAN : SendWriteDone(ok)
  \/ \E enabled \in BOOLEAN : SetLowPowerMode(enabled)

SpecSend == InitE /\ [][NextS]_vars

C10_SendAllOrNothing ==
  /\ call["send"].res = "threw" => (call["send"].wrote = 0 /\ store = <<>>)
  /\ call["send"].attempts <= 1 /\ call["send"].wrote <= 1
  /\ call["send"].attempts = 1 => call["send"].assembled
  /\ \A k \in 1..Len(store) : store[k].complete

C10_Witness ==
  /\ call["send"].res = "threw" /\ call["send"].storeErr
  /\ call["send"].assembled /\ store = <<>>

\* C17 (as claimed): a file payload is split with the chunk size of the mode
\* that is current when it is sent, 2048 in Normal and 1024 in Conserve, and
\* the decoder reassembles it with the chunk size it was split with.
C17_ChunkSizeFollowsMode ==
  (call["send"].type = "file" /\ call["send"].assembled) =>
     /\ call["send"].chunk = getOptimalChunkSize(call["send"].lowAtSplit)
     /\ DecodeChunkSize = call["send"].chunk

C20_VectorCount ==
  LET r == call["send"] IN
  r.assembled =>
     /\ r.nvec >= 1
     /\ r.type \in {"text", "image", "audio"} => r.nvec = 1
     /\ r.type = "video" => r.nvec = Len(extractKeyframes(r.size, r.fps))
     /\ r.type = "file" => r.nvec = NumChunks(r.size, r.chunk)

\* ------------------------------------------------------------ decodeData
\* lengths of the vectors of an EncodedData handed to decodeData
VectorLengths == {3, LATENT_DIM}

\* encoded.latentVectors: up to MaxFrames vectors
VectorLists == UNION {[1..n -> VectorLengths] : n \in 0..MaxFrames}

\* encoded.originalSize
DecodeSize == 2049

\* the quality decodeData reports, in percent, for a payload of the given type
\* with the handle of its decoder model set (loaded) or null
QualityOf(type, loaded) ==
  CASE type = "text" -> IF loaded THEN 95 ELSE 70
    [] type = "image" -> IF loaded THEN 90 ELSE 65
    [] type = "video" -> IF loaded THEN 85 ELSE 60
    [] type = "audio" -> IF loaded THEN 75 ELSE 50
    [] OTHER -> 70

\* what the data of a DecodedData is, by the path that produced it
ContentOf(type, path) ==
  CASE type = "file" -> "pseudo-random bytes"
    [] type = "text" /\ path = "model" -> "detokenized text"
    [] type = "text" -> "placeholder text"
    [] path = "model" -> "model pixels"
    [] path = "fallback" -> "solid colour"
    [] OTHER -> "empty"

\* the DecodedData decodeData returns
MakeDecoded(type, path, loaded, size) ==
  [type |-> type, data |-> ContentOf(type, path), originalSize |-> size,
   quality |-> QualityOf(type, loaded)]

\* the vectors decodeData hands to decodeTextWithCLIP / decodeImageWithCLIP:
\* all of them for a video, latentVectors[0] (undefined, here -1, when there is
\* none) for text, image and audio, none for a file
DecodeInputs(type, vlens) ==
  CASE type = "video" -> vlens
    [] type = "file" -> <<>>
    [] OTHER -> IF Len(vlens) = 0 THEN <<-1>> ELSE <<vlens[1]>>

\* decodeData(encoded) is called and runs to its first await: the decoder of
\* every vector it uses is called (a file decodes its chunks synchronously)
DecodeCall(type, vlens) ==
  LET model == IF type = "text" THEN "text" ELSE "image"
      ins == DecodeInputs(type, vlens) IN
  /\ job.pc = "idle" /\ call["send"].pc = "idle"
  /\ job' = [IdleJob EXCEPT !.pc = "units", !.type = type, !.vlens = vlens,
                            !.size = DecodeSize]
  /\ unit' = UnitsFor("dec", model, ins, Len(inits))
  /\ inits' = inits \o RunsFor("dec", model, Len(ins))
  /\ UNCHANGED <<msVars, modelVars, call, inflight, store, subscribed, isProcessing,
                 lastCall, now, snapSeq, handed, delivered, deliveredAtUnsub, encPeak,
                 cacheHist, perfVars, auxVars, loads, decHist>>

\* The await of the decoders settles.  A decoder that threw makes decodeData
\* throw (Promise.all rejects at the first rejection).  Else text and image
\* read the handle and return, a file reassembles its bytes and returns, and
\* video and audio await reconstructVideo / spectrogramToAudio.
DecodeUnitsDone ==
  LET threw == \E u \in 1..Len(unit) : unit[u].pc = "threw"
      path == IF job.type = "file" THEN "fallback"
              ELSE IF Len(unit) = 0 THEN "none" ELSE unit[1].path
      loaded == HandleSet("dec", IF job.type = "text" THEN "text" ELSE "image") IN
  /\ job.pc = "units"
  /\ threw \/ \A u \in 1..Len(unit) : unit[u].pc = "done"
  /\ job' = IF threw THEN [job EXCEPT !.pc = "done", !.threw = TRUE]
            ELSE IF job.type \in {"video", "audio"}
                 THEN [job EXCEPT !.pc = "adapter", !.path = path]
                 ELSE [job EXCEPT !.pc = "done", !.path = path,
                                  !.res = MakeDecoded(job.type, path, loaded, job.size)]
  /\ UNCHANGED <<msVars, modelVars, pipeVars, cacheHist, perfVars, auxVars, unit, loads, decHist>>

\* reconstructVideo / spectrogramToAudio resolves: decodeData reads the handle
\* of the image decoder and returns
DecodeReturn ==
  /\ job.pc = "adapter"
  /\ job' = [job EXCEPT !.pc = "done",
                        !.res = MakeDecoded(job.type, job.path, imageDecoderModel, job.size)]
  /\ UNCHANGED <<msVars, modelVars, pipeVars, cacheHist, perfVars, auxVars, unit, loads, decHist>>

\* The decoder handles a process can hold before an invocation: initDecoder
\* loads the text decoder first and does not reach the image decoder when that
\* load fails.
InitX ==
  /\ InitPipe /\ InitCodec /\ InitCacheHist /\ InitPerf
  /\ modelsInitialized = FALSE /\ modelsInitializing = FALSE
  /\ lowPowerMode = FALSE /\ cache = <<>>
  /\ textEncoderModel = FALSE /\ imageEncoderModel = FALSE
  /\ \E t \in BOOLEAN, i \in BOOLEAN :
       /\ i => t
       /\ textDecoderModel = t /\ imageDecoderModel = i
       /\ loads = [textEncoder |-> 0, imageEncoder |-> 0,
                   textDecoder |-> IF t THEN 1 ELSE 0, imageDecoder |-> IF i THEN 1 ELSE 0]

\* One sendMessage or one decodeData in a process.
NextX ==
  \/ NextS
  \/ \E type \in DataTypes, vlens \in VectorLists : DecodeCall(type, vlens)
  \/ DecodeUnitsDone
  \/ DecodeReturn

SpecCodec == InitX /\ [][NextX]_vars

\* the DecodedData decodeData returns for an EncodedData whose vectors all have
\* LATENT_DIM components
WellFormedResults(type, size) ==
  {MakeDecoded(type, path, loaded, size) :
     path \in {"model", "fallback"}, loaded \in BOOLEAN}

\* C11 (as claimed): decodeData of an EncodedData that holds a vector whose
\* length is not LATENT_DIM = 512 does not throw and returns a DecodedData
\* marked as undecodable, i.e. one that no well-formed input yields.
C11_InvalidDimensionMarked ==
  (/\ job.pc = "done"
   /\ \E k \in 1..Len(job.vlens) : job.vlens[k] # LATENT_DIM) =>
     /\ ~job.threw
     /\ job.res \notin WellFormedResults(job.type, job.size)

C13_HandleLoadedOnce ==
  /\ loads.textEncoder <= 1 /\ loads.imageEncoder <= 1
  /\ loads.textDecoder <= 1 /\ loads.imageDecoder <= 1

\* C14 (as claimed): the quality of a DecodedData is the lower value of its
\* type when the fallback produced its content and the higher value when the
\* model produced it, the higher being strictly above the lower.
C14_QualityReflectsPath ==
  (/\ job.pc = "done" /\ ~job.threw
   /\ job.type # "file" /\ job.path \in {"model", "fallback"}) =>
     /\ job.res.quality = QualityOf(job.type, job.path = "model")
     /\ QualityOf(job.type, TRUE) > QualityOf(job.type, FALSE)

\* C21 (as claimed): for every EncodedData returned by encodeData,
\* encodedSize is latentVectors.length * 512 * 4 and compressionRatio is the
\* number originalSize / encodedSize; for the text "Hello" it is 5 / 2048,
\* which is below 1.
C21_SizeAndRatio ==
  LET r == call["send"] IN
  r.assembled =>
     /\ r.encodedSize = r.nvec * 512 * 4
     /\ ~r.ratio.nan /\ r.ratio.den > 0
     /\ r.ratio.num * r.encodedSize = r.size * r.ratio.den
     /\ (r.type = "text" /\ r.size = 5) =>
          (r.ratio.num = 5 /\ r.ratio.den = 2048 /\ r.ratio.num < r.ratio.den)

\* C28 (as claimed): a MessageCache.set for an id that is in the cache leaves
\* every other entry of the cache in place, with its value, and the id in the
\* cache, also when the cache is at capacity.
C28_SetExistingKeepsOthers ==
  [][(/\ setKeys'.n = setKeys.n + 1
      /\ recency'[Len(recency')] \in CacheKeys(cache)) =>
        /\ recency'[Len(recency')] \in CacheKeys(cache')
        /\ \A k \in CacheKeys(cache) \ {recency'[Len(recency')]} :
             CacheHas(cache', k) /\ CacheVal(cache', k) = CacheVal(cache, k)]_vars

\* C27 (as claimed): once PerformanceMonitor.stop() has returned with no
\* start() in progress, every listener that start() registered is removed: the
\* battery-level, charging-state or app-state event that comes next does not
\* change the published low-power mode.
C27_StopRemovesListeners ==
  [][(monLast = "stop" /\ monPc = "started" /\ monLast' = "event") =>
       lowPowerMode' = lowPowerMode]_vars

\* ------------------------------------------------------------ termination of ensureModelsLoaded
\* initModels and initDecoder terminate (each of their awaits settles), the
\* timer of a waiting caller fires and a settled Promise.all resumes its
\* caller.
InitFairness ==
  /\ WF_vars(\E r \in 1..3, ok \in BOOLEAN : InitModelsStep(r, ok))
  /\ WF_vars(\E r \in 1..3, ok \in BOOLEAN : InitDecoderStep(r, ok))
  /\ \A c \in Calls : WF_vars(EnsureWake(c)) /\ WF_vars(EnsureFinish(c))

SpecInitFair == InitE /\ [][NextE]_vars /\ InitFairness

\* C30: with initModels and initDecoder terminating, every call of
\* ensureModelsLoaded returns, a caller that waited on the initialization in
\* flight included; once a call has returned modelsInitialized is true, also
\* when a model load failed, and it stays true; modelsInitializing is false
\* whenever no initialization is running.
C30_EnsureReturns ==
  /\ \A c \in Calls : (call[c].pc \in {"sleep", "initWait"}) ~> (call[c].pc = "ensured")
  /\ [](\A c \in Calls : call[c].pc = "ensured" => modelsInitialized)
  /\ [][modelsInitialized => modelsInitialized']_vars
  /\ []((\A r \in 1..Len(inits) : inits[r].joined) => ~modelsInitializing)

C30_Witness ==
  /\ \E c \in Calls : call[c].waited /\ call[c].pc = "ensured"
  /\ \A c \in Calls : call[c].pc = "ensured"
  /\ modelsInitialized /\ ~modelsInitializing
  /\ ~textEncoderModel /\ ~textDecoderModel

\* ------------------------------------------------------------ chunkBytes / chunksToBytes
\* values of the bytes of a file
ByteValues == {0, 128, 255}

\* the byte arrays given to chunkBytes
ByteArrays == UNION {[1..n -> ByteValues] : n \in 0..MaxBytes}

\* the chunkSize arguments tried
ChunkSizes == {1, 2, 3}

\* bytes[i] / 255.0, an element of a chunk, as a fraction
UnitOf(b) == [num |-> b, den |-> 255]

\* Math.round(x * 255) stored into a Uint8Array
ByteOf(x) == ((2 * x.num * 255 + x.den) \div (2 * x.den)) % 256

\* the loop of chunkBytes from offset i (0-based): one chunk of chunkSize
\* elements per round, filled with 0 beyond the end of bytes
RECURSIVE ChunkLoop(_, _, _)
ChunkLoop(bytes, chunkSize, i) ==
  IF i < Len(bytes)
  THEN <<[j \in 1..chunkSize |-> IF i + j <= Len(bytes) THEN UnitOf(bytes[i + j])
                                 ELSE UnitOf(0)]>>
       \o ChunkLoop(bytes, chunkSize, i + chunkSize)
  ELSE <<>>

\* chunkBytes(bytes, chunkSize)
chunkBytes(bytes, chunkSize) == ChunkLoop(bytes, chunkSize, 0)

\* the elements of the chunks one after the other
RECURSIVE Flatten(_)
Flatten(chunks) == IF chunks = <<>> THEN <<>> ELSE Head(chunks) \o Flatten(Tail(chunks))

\* mutant of chunksToBytes: every element of the chunks is copied
ChunksToBytesAll(chunks, originalSize) ==
  [k \in 1..Len(Flatten(chunks)) |-> ByteOf(Flatten(chunks)[k])]

\* chunksToBytes(chunks, originalSize): a Uint8Array of originalSize zeros into
\* which the elements are copied while offset < originalSize
chunksToBytes(chunks, originalSize) ==
  [k \in 1..originalSize |->
     IF k <= Len(Flatten(chunks)) THEN ByteOf(Flatten(chunks)[k]) ELSE 0]

\* chunkBytes is called
ChunkCall(bytes, chunkSize) ==
  /\ probe' = [fn |-> "chunkBytes", bytes |-> bytes, chunkSize |-> chunkSize,
               chunks |-> chunkBytes(bytes, chunkSize)]
  /\ UNCHANGED <<msVars, modelVars, pipeVars, cacheHist, perfVars, codecVars, loads,
                 decHist, convs, cc>>

\* chunksToBytes is called with the chunks of the latest chunkBytes call
JoinCall(originalSize) ==
  /\ probe.fn = "chunkBytes"
  /\ probe' = [fn |-> "chunksToBytes", bytes |-> probe.bytes,
               chunkSize |-> probe.chunkSize, chunks |-> probe.chunks,
               originalSize |-> originalSize,
               out |-> chunksToBytes(probe.chunks, originalSize)]
  /\ UNCHANGED <<msVars, modelVars, pipeVars, cacheHist, perfVars, codecVars, loads,
                 decHist, convs, cc>>

NextK ==
  \/ \E bytes \in ByteArrays, chunkSize \in ChunkSizes : ChunkCall(bytes, chunkSize)
  \/ \E originalSize \in 0..(MaxBytes + 1) : JoinCall(originalSize)

SpecChunk == InitE /\ [][NextK]_vars

\* C23: chunkBytes(bytes, chunkSize) returns ceil(len / chunkSize) chunks of
\* chunkSize elements each and no chunk for an empty input;
\* chunksToBytes(chunks, originalSize) returns exactly originalSize bytes, the
\* bytes that were chunked followed by zeros, and drops what the chunks hold
\* beyond originalSize.
C23_ChunkSplitJoin ==
  /\ probe.fn \in {"chunkBytes", "chunksToBytes"} =>
       LET n == Len(probe.chunks)
           len == Len(probe.bytes) IN
         /\ n * probe.chunkSize >= len /\ (n - 1) * probe.chunkSize < len
         /\ \A c \in 1..n : Len(probe.chunks[c]) = probe.chunkSize
         /\ len = 0 => probe.chunks = <<>>
  /\ probe.fn = "chunksToBytes" =>
       /\ Len(probe.out) = probe.originalSize
       /\ \A k \in 1..probe.originalSize :
            probe.out[k] = IF k <= Len(probe.bytes) THEN probe.bytes[k] ELSE 0

C23_Witness ==
  /\ probe.fn = "chunksToBytes" /\ probe.bytes = <<255, 128, 255>>
  /\ probe.chunkSize = 2 /\ Len(Flatten(probe.chunks)) = 4
  /\ probe.originalSize = 3 /\ probe.out = probe.bytes

\* ------------------------------------------------------------ createConversation
Users == 1..NumUsers

\* [userId1, userId2].sort()
SortedIds(userId1, userId2) == <<Min(userId1, userId2), Max(userId1, userId2)>>

\* the documents of the query where("participants", "==", sortedIds)
Matching(sortedIds) == SelectSeq(convs, LAMBDA d : d.participants = sortedIds)

\* createConversation(userId1, userId2) is called: getConversation builds the
\* query and awaits getDocs
CreateCall(userId1, userId2) ==
  /\ Len(cc) < MaxCreates
  /\ cc' = Append(cc, [userId1 |-> userId1, userId2 |-> userId2, pc |-> "getDocs",
                       existed |-> FALSE, id |-> 0, threw |-> FALSE])
  /\ UNCHANGED <<msVars, modelVars, pipeVars, cacheHist, perfVars, codecVars, loads,
                 decHist, probe, convs>>

\* getDocs of invocation i resolves or rejects.  getConversation returns the
\* first document of a non-empty result and null for an empty result or an
\* error; createConversation returns the conversation it got, or builds a new
\* one and awaits addDoc.
CreateGotDocs(i, ok) ==
  LET found == Matching(SortedIds(cc[i].userId1, cc[i].userId2)) IN
  /\ i \in 1..Len(cc) /\ cc[i].pc = "getDocs"
  /\ cc' = [cc EXCEPT ![i] =
              IF ok /\ found # <<>>
              THEN [@ EXCEPT !.pc = "done", !.existed = TRUE, !.id = found[1].id]
              ELSE [@ EXCEPT !.pc = "addDoc"]]
  /\ UNCHANGED <<msVars, modelVars, pipeVars, cacheHist, perfVars, codecVars, loads,
                 decHist, probe, convs>>

\* addDoc of invocation i resolves (the conversation is in the store and is
\* returned with the id of the document) or rejects (the error is rethrown)
CreateAdded(i, ok) ==
  /\ i \in 1..Len(cc) /\ cc[i].pc = "addDoc"
  /\ IF ok
     THEN /\ convs' = Append(convs, [id |-> Len(convs) + 1,
                                     participants |-> SortedIds(cc[i].userId1,
                                                                cc[i].userId2)])
          /\ cc' = [cc EXCEPT ![i].pc = "done", ![i].id = Len(convs) + 1]
     ELSE /\ cc' = [cc EXCEPT ![i].pc = "done", ![i].threw = TRUE]
          /\ UNCHANGED convs
  /\ UNCHANGED <<msVars, modelVars, pipeVars, cacheHist, perfVars, codecVars, loads,
                 decHist, probe>>

NextV ==
  \/ \E userId1 \in Users : \E userId2 \in Users \ {userId1} :
        CreateCall(userId1, userId2)
  \/ \E i \in 1..Len(cc), ok \in BOOLEAN : CreateGotDocs(i, ok)
  \/ \E i \in 1..Len(cc), ok \in BOOLEAN : CreateAdded(i, ok)

SpecConv == InitE /\ [][NextV]_vars

\* C24 (as claimed): a createConversation that returns gives a conversation
\* with the id of a stored conversation of the two users, and after any
\* createConversation calls, concurrent ones included, the store holds at most
\* one conversation per unordered pair of users.
C24_OneConversationPerPair ==
  /\ \A i \in 1..Len(cc) :
       (cc[i].pc = "done" /\ ~cc[i].threw) =>
          \E k \in 1..Len(convs) :
             /\ convs[k].id = cc[i].id
             /\ convs[k].participants = SortedIds(cc[i].userId1, cc[i].userId2)
  /\ \A j, k \in 1..Len(convs) :
       convs[j].participants = convs[k].participants => j = k

\* ------------------------------------------------------- changing conversation
\* the list the callback was last invoked with came from the handler whose
\* record is call["snap"]
LastDelivered ==
  /\ delivered # <<>> /\ call["snap"].pc = "idle"
  /\ delivered[Len(delivered)].snap = call["snap"].inst

\* C25 (as claimed): every message of a list the callback is invoked with
\* equals, field by field, the fresh decode of the raw record of its snapshot.
C25_CacheTransparent ==
  LastDelivered =>
     \A k \in 1..Len(call["snap"].out) :
        call["snap"].out[k] = Decoded(call["snap"].raw[k])

\* the listener is subscribed, the store has pushed a snapshot and no handler
\* is running: until the store pushes another snapshot nothing of the
\* listener runs (throttle sets no timer)
ListenerAtRest ==
  /\ subscribed = "yes" /\ snapSeq >= 1
  /\ ~isProcessing /\ call["snap"].pc = "idle"

\* C26 (as claimed, in its finite-run form): whenever the listener is at rest
\* over a conversation whose records all decode, the callback has been invoked
\* and the list of its last invocation is that of the last snapshot, which is
\* the conversation as it is.  A state at rest with an older list stays so for
\* ever once the store stops changing.
C26_LastSnapshotDelivered ==
  (ListenerAtRest /\ \A k \in 1..Len(store) : ~Throws(store[k])) =>
     /\ delivered # <<>>
     /\ delivered[Len(delivered)].list = Ids(store)

\* C29: the busy flag is set exactly while a handler of the listener runs; a
\* snapshot that arrives while it is set starts no handler and no decode; a
\* snapshot that arrives while it is clear - the previous handler has finished,
\* by success or by error - is processed with the documents of that snapshot;
\* so the running handler is replaced only after it has finished.
C29_OneHandlerAtATime ==
  /\ [](isProcessing <=> call["snap"].pc # "idle")
  /\ [][(snapSeq' = snapSeq + 1 /\ isProcessing) =>
           (call' = call /\ inflight' = inflight /\ isProcessing')]_vars
  /\ [][(snapSeq' = snapSeq + 1 /\ ~isProcessing) =>
           /\ isProcessing'
           /\ call'["snap"].inst = snapSeq' /\ call'["snap"].raw = store']_vars
  /\ [][call'["snap"].inst # call["snap"].inst => call["snap"].pc = "idle"]_vars

\* a second snapshot was skipped while the handler of the first awaits the
\* decodes of a batch
C29_Witness ==
  /\ snapSeq = 2 /\ isProcessing
  /\ call["snap"].inst = 1 /\ call["snap"].pc = "batch"
  /\ Outstanding("snap", 1) # {}

====
